---- MODULE Spec2Model ----
(***************************************************************************)
(* Fulfillment combination search and ranking of routers/delivery.py.      *)
(*                                                                         *)
(* Money and distances are fixed-point integers: one currency unit is      *)
(* Scale = 100000 model units (so a cent is 1000 units and round(x, 2)     *)
(* really discards digits), one kilometre is Scale distance units.         *)
(* Coordinates are offsets from the base coordinate in hundredths of a     *)
(* degree.                                                                 *)
(***************************************************************************)
EXTENDS Integers, Sequences, FiniteSets, TLC

VARIABLES shops, request, combinations_list, response, pc

vars == <<shops, request, combinations_list, response, pc>>

----------------------------------------------------------------------------
(* Bounds of the model *)

MaxShops == 3

MaxLen == 2

----------------------------------------------------------------------------
(* Fixed-point arithmetic *)

Scale == 100000

Cent == 1000

\* math.sqrt, truncated: the largest r in lo..hi with r * r <= x (bisection)
RECURSIVE SqrtIn(_, _, _)
SqrtIn(x, lo, hi) ==
    IF lo >= hi THEN lo
    ELSE LET mid == (lo + hi + 1) \div 2
         IN  IF mid * mid <= x THEN SqrtIn(x, mid, hi) ELSE SqrtIn(x, lo, mid - 1)

Isqrt(x) == SqrtIn(x, 0, 32767)

\* the roots of the squared coordinate distances that occur, to three decimals
sqrt_milli == [d \in 0..8 |-> Isqrt(d * 1000000)]

\* round(x, 2): the nearest cent, a tie going upward
round2(x) == ((x + (Cent \div 2)) \div Cent) * Cent

Range(s) == {s[i] : i \in 1..Len(s)}

RECURSIVE SeqSum(_)
SeqSum(s) == IF s = <<>> THEN 0 ELSE s[1] + SeqSum(Tail(s))

RECURSIVE SetSum(_, _)
SetSum(S, f) ==
    IF S = {} THEN 0
    ELSE LET x == CHOOSE y \in S : TRUE IN f[x] + SetSum(S \ {x}, f)

RECURSIVE Flatten(_)
Flatten(ss) == IF ss = <<>> THEN <<>> ELSE ss[1] \o Flatten(Tail(ss))

----------------------------------------------------------------------------
(* The catalog *)

Salts == {"A", "B"}

Loc(lat, lon) == [latitude |-> lat, longitude |-> lon]

\* price and base cost are amounts in cents, as round(..., 2) leaves them
Kind(inv, base, loc) == [inventory |-> inv, base_cost |-> base * Cent, location |-> loc]

\* the stock, base cost and place a shop of the catalog can have
ShopKinds ==
    { Kind([s \in {"A"} |-> 100], 0, Loc(0, 0)),
      Kind([s \in {"B"} |-> 200], 0, Loc(0, 0)),
      Kind([s \in {"A", "B"} |-> IF s = "A" THEN 150 ELSE 250], 100, Loc(0, 0)) }

\* shop i of the catalog: id, name and brands carry the index i
MakeShop(i, k) ==
    [ shop_id |-> i,
      shop_name |-> <<"Vendor", i>>,
      base_cost |-> k.base_cost,
      location |-> k.location,
      inventory |-> [s \in DOMAIN k.inventory |->
                        [brand |-> <<"Brand", s, i>>, price |-> k.inventory[s] * Cent]] ]

generate_mock_shops ==
    UNION { { [i \in 1..n |-> MakeShop(i, ks[i])] : ks \in [1..n -> ShopKinds] }
            : n \in 1..MaxShops }

----------------------------------------------------------------------------
(* Requests *)

UserLocations == {Loc(0, 0), Loc(1, 1)}

\* -2.0, 0 (the default) and 0.12345 currency units
DemandFactors == {0 - 2 * Scale, 0, 12345}

SaltLists == UNION { [1..n -> Salts] : n \in 0..MaxLen }

DeliveryRequest ==
    [ prescription_salts : SaltLists,
      user_location : UserLocations,
      demand_factor : DemandFactors,
      convenience_factor : BOOLEAN ]

----------------------------------------------------------------------------
(* Helper functions *)

calculate_distance_km(loc1, loc2) ==
    LET dlat == loc1.latitude - loc2.latitude
        dlon == loc1.longitude - loc2.longitude
    IN  sqrt_milli[dlat * dlat + dlon * dlon] * 111

\* the cost with the distance term subtracted
calculate_delivery_cost_minus(base_cost, distance_km, demand_factor) ==
    base_cost - (distance_km * 5) + demand_factor

calculate_delivery_cost(base_cost, distance_km, demand_factor) ==
    base_cost + (distance_km * 5) + demand_factor

\* itertools.combinations(1..n, r) restricted to first elements >= lo:
\* the r-tuples of increasing indices, in lexicographic order
RECURSIVE CombsFrom(_, _, _)
CombsFrom(lo, n, r) ==
    IF r = 0 THEN << <<>> >>
    ELSE IF n - lo + 1 < r THEN <<>>
    ELSE LET rest == CombsFrom(lo + 1, n, r - 1)
         IN  [j \in 1..Len(rest) |-> <<lo>> \o rest[j]] \o CombsFrom(lo + 1, n, r)

\* itertools.combinations over every catalog size and tuple length in use
combinations_of == [n \in 0..MaxShops |-> [r \in 0..n |-> CombsFrom(1, n, r)]]

combinations(n, r) == combinations_of[n][r]

\* covered_salts of one combination: the union of its shops' inventory keys
covered_salts(catalog, combo) ==
    UNION {DOMAIN catalog[combo[j]].inventory : j \in 1..Len(combo)}

\* the coverage test with any() in place of all()
covers_any(catalog, combo, prescription_salts) ==
    \E k \in 1..Len(prescription_salts) :
        prescription_salts[k] \in covered_salts(catalog, combo)

covers(catalog, combo, prescription_salts) ==
    \A k \in 1..Len(prescription_salts) :
        prescription_salts[k] \in covered_salts(catalog, combo)

\* the search with range(1, len(shops)): the whole catalog is never tried
get_fulfillment_combinations_short(catalog, prescription_salts) ==
    LET n == Len(catalog)
        valid(combo) == covers(catalog, combo, prescription_salts)
    IN  Flatten([r \in 1..(n - 1) |-> SelectSeq(combinations(n, r), valid)])

get_fulfillment_combinations(catalog, prescription_salts) ==
    LET n == Len(catalog)
        valid(combo) == covers(catalog, combo, prescription_salts)
    IN  Flatten([r \in 1..n |-> SelectSeq(combinations(n, r), valid)])

----------------------------------------------------------------------------
(* Pricing of one combination *)

\* the items of one shop: one entry per entry of the requirement list that
\* the shop stocks, in the order of the list
RECURSIVE shop_items(_, _)
shop_items(shop, prescription_salts) ==
    IF prescription_salts = <<>> THEN <<>>
    ELSE LET salt == Head(prescription_salts)
             rest == shop_items(shop, Tail(prescription_salts))
         IN  IF salt \in DOMAIN shop.inventory
             THEN << [salt |-> salt,
                      brand |-> shop.inventory[salt].brand,
                      price |-> shop.inventory[salt].price] >> \o rest
             ELSE rest

shop_delivery_cost(shop, req) ==
    calculate_delivery_cost(shop.base_cost,
                            calculate_distance_km(shop.location, req.user_location),
                            req.demand_factor)

fulfillment_detail(shop, req) ==
    [ shop_id |-> shop.shop_id,
      shop_name |-> shop.shop_name,
      delivery_cost |-> round2(shop_delivery_cost(shop, req)),
      items |-> shop_items(shop, req.prescription_salts) ]

\* the medicine cost charging an item to the first shop of the combination
\* that stocks it, and to no other
medicine_cost_once(catalog, combo, req) ==
    SeqSum([j \in 1..Len(combo) |->
        LET items == shop_items(catalog[combo[j]], req.prescription_salts)
            first(salt) == \A h \in 1..(j - 1) :
                               salt \notin DOMAIN catalog[combo[h]].inventory
        IN  SeqSum([k \in 1..Len(items) |->
                IF first(items[k].salt) THEN items[k].price ELSE 0])])

\* total_medicine_cost before rounding: every item of every shop is added
medicine_cost(catalog, combo, req) ==
    SeqSum([j \in 1..Len(combo) |->
        LET items == shop_items(catalog[combo[j]], req.prescription_salts)
        IN  SeqSum([k \in 1..Len(items) |-> items[k].price])])

\* total_delivery_cost before rounding: one delivery cost per shop
delivery_cost(catalog, combo, req) ==
    SeqSum([j \in 1..Len(combo) |-> shop_delivery_cost(catalog[combo[j]], req)])

\* the grand total without the delivery cost
grand_total_no_delivery(total_medicine_cost, total_delivery_cost) ==
    round2(total_medicine_cost)

grand_total(total_medicine_cost, total_delivery_cost) ==
    round2(total_medicine_cost + total_delivery_cost)

price_combination(catalog, combo, req) ==
    LET total_medicine_cost == medicine_cost(catalog, combo, req)
        total_delivery_cost == delivery_cost(catalog, combo, req)
    IN  [ num_shops |-> Len(combo),
          total_medicine_cost |-> round2(total_medicine_cost),
          total_delivery_cost |-> round2(total_delivery_cost),
          grand_total |-> grand_total(total_medicine_cost, total_delivery_cost),
          fulfillment_details |->
              [j \in 1..Len(combo) |-> fulfillment_detail(catalog[combo[j]], req)] ]

----------------------------------------------------------------------------
(* Ranking *)

\* the sort key grand_total alone
key_le_cost_only(x, y) == x.grand_total <= y.grand_total

\* the sort key (num_shops, grand_total), compared as Python compares tuples
key_le(x, y) ==
    \/ x.num_shops < y.num_shops
    \/ x.num_shops = y.num_shops /\ x.grand_total <= y.grand_total

\* x goes after every element whose key is not greater (list.sort is stable)
RECURSIVE insert_sorted(_, _)
insert_sorted(x, sorted) ==
    IF sorted = <<>> THEN <<x>>
    ELSE IF key_le(Head(sorted), x)
         THEN <<Head(sorted)>> \o insert_sorted(x, Tail(sorted))
         ELSE <<x>> \o sorted

RECURSIVE sort_options(_)
sort_options(options) ==
    IF options = <<>> THEN <<>>
    ELSE insert_sorted(options[Len(options)],
                       sort_options(SubSeq(options, 1, Len(options) - 1)))

\* the rank without the + 1
rank_of_zero_based(i) == i - 1

\* rank of the option at position i (positions count from 1 here, from 0 in
\* enumerate)
rank_of(i) == i

priority_reason(convenience_factor) ==
    IF convenience_factor THEN "Fewest shops + reasonable cost" ELSE "Lowest cost"

assign_ranks(options, convenience_factor) ==
    [i \in 1..Len(options) |->
        [ num_shops |-> options[i].num_shops,
          total_medicine_cost |-> options[i].total_medicine_cost,
          total_delivery_cost |-> options[i].total_delivery_cost,
          grand_total |-> options[i].grand_total,
          fulfillment_details |-> options[i].fulfillment_details,
          rank |-> rank_of(i),
          priority_reason |-> priority_reason(convenience_factor) ]]

ranked_options(catalog, combos, req) ==
    assign_ranks(
        sort_options([c \in 1..Len(combos) |-> price_combination(catalog, combos[c], req)]),
        req.convenience_factor)

----------------------------------------------------------------------------
(* The endpoint *)

\* the endpoint without the empty-result check
status_of_always_ok(combos) == 200

\* 404 when the search found nothing, 200 otherwise
status_of(combos) == IF combos = <<>> THEN 404 ELSE 200

respond(catalog, combos, req) ==
    IF status_of(combos) = 404
    THEN [ status |-> 404,
           prescription_salts |-> <<>>,
           optimal_options_ranked |-> <<>> ]
    ELSE [ status |-> 200,
           prescription_salts |-> req.prescription_salts,
           optimal_options_ranked |-> ranked_options(catalog, combos, req) ]

NoRequest ==
    [ prescription_salts |-> <<>>,
      user_location |-> Loc(0, 0),
      demand_factor |-> 0,
      convenience_factor |-> TRUE ]

NoResponse == [status |-> 0, prescription_salts |-> <<>>, optimal_options_ranked |-> <<>>]

Init ==
    /\ shops \in generate_mock_shops
    /\ request = NoRequest
    /\ combinations_list = <<>>
    /\ response = NoResponse
    /\ pc = "idle"

calculate_delivery(req) ==
    /\ pc = "idle"
    /\ request' = req
    /\ combinations_list' = get_fulfillment_combinations(shops, req.prescription_salts)
    /\ response' = respond(shops, combinations_list', req)
    /\ pc' = "done"
    /\ UNCHANGED shops

Next == \E req \in DeliveryRequest : calculate_delivery(req)

Spec == Init /\ [][Next]_vars

----------------------------------------------------------------------------
(* Properties *)

Answered == pc = "done"

Succeeded == pc = "done" /\ response.status = 200

required_salts == Range(request.prescription_salts)

ranked == response.optimal_options_ranked

\* the suppliers of a ranked option, as a set of shop ids
option_shops(option) ==
    {option.fulfillment_details[j].shop_id : j \in 1..Len(option.fulfillment_details)}

stocked(S) == UNION {DOMAIN shops[i].inventory : i \in S}

is_cover(S) ==
    /\ S # {}
    /\ S \subseteq DOMAIN shops
    /\ required_salts \subseteq stocked(S)

\* C1: every combination the search returns, and every entry of the ranked
\* output, is a non-empty subset of the catalog whose inventories together
\* contain every required item.
C1_Coverage ==
    /\ \A c \in 1..Len(combinations_list) : is_cover(Range(combinations_list[c]))
    /\ \A i \in 1..Len(ranked) : is_cover(option_shops(ranked[i]))

\* a returned combination of two or more shops none of which covers the
\* requirement alone
C1_Witness ==
    /\ Succeeded
    /\ \E i \in 1..Len(ranked) :
          /\ ranked[i].num_shops >= 2
          /\ \A m \in option_shops(ranked[i]) : ~ is_cover({m})

\* every non-empty subset of the catalog that covers the requirement
all_covers == {S \in SUBSET (1..Len(shops)) : is_cover(S)}

\* C2: for a non-empty requirement the returned combinations are exactly the
\* covering non-empty subsets of the catalog, each once.
C2_Completeness ==
    (Answered /\ request.prescription_salts # <<>>) =>
        /\ {Range(combinations_list[c]) : c \in 1..Len(combinations_list)} = all_covers
        /\ Len(combinations_list) = Cardinality(all_covers)
        /\ \A c \in 1..Len(combinations_list) :
              Cardinality(Range(combinations_list[c])) = Len(combinations_list[c])

\* a returned combination that stays covering when one member is removed
C2_Witness ==
    /\ Answered
    /\ request.prescription_salts # <<>>
    /\ \E c \in 1..Len(combinations_list) :
          \E m \in Range(combinations_list[c]) :
              is_cover(Range(combinations_list[c]) \ {m})

\* C3: the output is ordered by (number of suppliers, grand total),
\* lexicographically.
C3_RankingOrder ==
    \A i \in 1..Len(ranked) : \A j \in 1..Len(ranked) :
        i < j =>
            \/ ranked[i].num_shops < ranked[j].num_shops
            \/ /\ ranked[i].num_shops = ranked[j].num_shops
               /\ ranked[i].grand_total <= ranked[j].grand_total

\* an option with fewer suppliers ranked before a cheaper one with more, and
\* two options of equal size ordered by distinct costs
C3_Witness ==
    /\ Succeeded
    /\ \E i \in 1..Len(ranked) : \E j \in 1..Len(ranked) :
          /\ i < j
          /\ ranked[i].num_shops < ranked[j].num_shops
          /\ ranked[i].grand_total > ranked[j].grand_total
    /\ \E i \in 1..Len(ranked) : \E j \in 1..Len(ranked) :
          /\ i < j
          /\ ranked[i].num_shops = ranked[j].num_shops
          /\ ranked[i].grand_total < ranked[j].grand_total

\* C4: in a success response the ranks read 1, 2, ..., K in output order and
\* K is the number of combinations the search found.
C4_Ranks ==
    Succeeded =>
        /\ \A i \in 1..Len(ranked) : ranked[i].rank = i
        /\ Len(ranked) = Len(combinations_list)

C4_Witness == Succeeded /\ Len(ranked) >= 3

unstocked_required == required_salts \ stocked(DOMAIN shops)

\* C5: a requirement with an item no shop stocks ends in 404; a success
\* response has at least one ranked combination.
C5_NotFulfillable ==
    /\ (Answered /\ unstocked_required # {}) =>
           (response.status = 404 /\ ranked = <<>>)
    /\ Succeeded => Len(ranked) >= 1

\* a request for two items, one stocked and one not, answered with 404
C5_Witness ==
    /\ Answered
    /\ unstocked_required # {}
    /\ required_salts \ unstocked_required # {}
    /\ response.status = 404

\* C6: a request with an empty requirement list is rejected and produces no
\* ranked success response.
C6_EmptyRejected ==
    (Answered /\ request.prescription_salts = <<>>) =>
        (response.status # 200 /\ combinations_list = <<>>)

valid_input ==
    /\ request.demand_factor >= 0
    /\ \A i \in DOMAIN shops :
          /\ shops[i].base_cost >= 0
          /\ \A s \in DOMAIN shops[i].inventory : shops[i].inventory[s].price >= 0

\* C7: for non-negative prices, base costs and demand factor every total of
\* every ranked combination is non-negative.
C7_NonNegative ==
    valid_input =>
        \A i \in 1..Len(ranked) :
            /\ ranked[i].total_medicine_cost >= 0
            /\ ranked[i].total_delivery_cost >= 0
            /\ ranked[i].grand_total >= 0

\* a success for a distant user and a positive demand factor
C7_Witness ==
    /\ Succeeded
    /\ valid_input
    /\ request.demand_factor > 0
    /\ \E i \in DOMAIN shops : shops[i].location # request.user_location

ExampleCatalog ==
    << MakeShop(1, Kind([s \in {"A"} |-> 100], 0, Loc(0, 0))),
       MakeShop(2, Kind([s \in {"B"} |-> 200], 0, Loc(0, 0))),
       MakeShop(3, Kind([s \in {"A", "B"} |-> IF s = "A" THEN 150 ELSE 250],
                        100, Loc(0, 0))) >>

ExampleCase ==
    /\ Answered
    /\ shops = ExampleCatalog
    /\ request.prescription_salts = <<"A", "B">>
    /\ request.user_location = Loc(0, 0)
    /\ request.demand_factor = 0

\* C8: on the example catalog and the requirement {A, B} the returned
\* combinations are {S3}, {S1,S2}, {S1,S3}, {S2,S3} and {S1,S2,S3}, and rank 1
\* is {S3} alone with grand total 5.00.
C8_Example ==
    ExampleCase =>
        /\ response.status = 200
        /\ Len(ranked) = 5
        /\ {option_shops(ranked[i]) : i \in 1..Len(ranked)}
               = {{3}, {1, 2}, {1, 3}, {2, 3}, {1, 2, 3}}
        /\ {Range(combinations_list[c]) : c \in 1..Len(combinations_list)}
               = {{3}, {1, 2}, {1, 3}, {2, 3}, {1, 2, 3}}
        /\ option_shops(ranked[1]) = {3}
        /\ ranked[1].rank = 1
        /\ ranked[1].grand_total = 500 * Cent

C8_Witness == ExampleCase /\ response.status = 200

\* the list without its repeated entries, first occurrences kept in order
RECURSIVE dedup(_)
dedup(list) ==
    IF list = <<>> THEN <<>>
    ELSE LET front == dedup(SubSeq(list, 1, Len(list) - 1))
             last == list[Len(list)]
         IN  IF last \in Range(front) THEN front ELSE Append(front, last)

\* the answer to the current request with the repetitions removed
dedup_request == [request EXCEPT !.prescription_salts = dedup(@)]

dedup_combinations == get_fulfillment_combinations(shops, dedup_request.prescription_salts)

dedup_response == respond(shops, dedup_combinations, dedup_request)

\* C9: a request whose list repeats an item gets the same combinations, with
\* the same medicine cost, grand total and order, as the request without the
\* repetition.
C9_SetSemantics ==
    Answered =>
        /\ combinations_list = dedup_combinations
        /\ response.status = dedup_response.status
        /\ Len(ranked) = Len(dedup_response.optimal_options_ranked)
        /\ \A i \in 1..Len(ranked) :
              LET other == dedup_response.optimal_options_ranked[i]
              IN  /\ option_shops(ranked[i]) = option_shops(other)
                  /\ ranked[i].total_medicine_cost = other.total_medicine_cost
                  /\ ranked[i].grand_total = other.grand_total

\* the (shop, list entry) pairs of a combination in which the shop stocks the
\* entry's item
charged(S) ==
    {p \in S \X (1..Len(request.prescription_salts)) :
        request.prescription_salts[p[2]] \in DOMAIN shops[p[1]].inventory}

charge == [p \in (DOMAIN shops) \X (1..Len(request.prescription_salts)) |->
              IF request.prescription_salts[p[2]] \in DOMAIN shops[p[1]].inventory
              THEN shops[p[1]].inventory[request.prescription_salts[p[2]]].price
              ELSE 0]

delivery == [i \in DOMAIN shops |->
                shops[i].base_cost
                + 5 * calculate_distance_km(shops[i].location, request.user_location)
                + request.demand_factor]

====
